---- MODULE Spec2Model ----
(***************************************************************************)
(* Model of the Cilium L7 policy HTTP filter (cilium/l7policy.cc):         *)
(* Config construction, AccessFilter::decodeHeaders, the upstream callback *)
(* it registers, AccessFilter::encodeHeaders and AccessFilter::onDestroy,  *)
(* driven by the host proxy's stream pipeline.                             *)
(***************************************************************************)
EXTENDS Integers, Sequences, FiniteSets, TLC

(* ---------------------------- bounds ---------------------------------- *)
\* upstream attempts (host selections) the router makes for one request
MaxAttempts == 2
\* streams (filter instances) created from one Config
MaxRequests == 2
\* length of the denied_403_body values tried on Config construction alone
MaxBodyLen == 4

(* ------------------------- program constants --------------------------- *)
\* Http::Code::Forbidden
Forbidden == 403

CR == "\\r"
LF == "\\n"
DefaultBody == <<"A", "c", "c", "e", "s", "s", " ", "d", "e", "n", "i", "e", "d">>

\* Http::Headers::get().EnvoyOriginalDstHost
EnvoyOriginalDstHost == "x-envoy-original-dst-host"

\* ::cilium::EntryType
Request == "Request"
Response == "Response"
Denied == "Denied"

\* Http::FilterHeadersStatus
Continue == "Continue"
StopIteration == "StopIteration"
NoStatus == "NoStatus"

(* --------------------------- input domains ----------------------------- *)
\* denied_403_body values of the configuration
ConfiguredBodies == {<<>>, <<"x">>, <<"x", CR, LF>>}
\* access_log_path values of the configuration
AccessLogPaths == {"", "/var/run/cilium/access_log.sock"}

\* denied_403_body values of at most n characters
BodyChars == {"x", CR, LF}
BodiesUpTo(n) == UNION {[1..k -> BodyChars] : k \in 0..n}

\* policy_name values of the configuration
PolicyNames == {"", "legacy-policy"}
\* is_ingress of the configuration: unset (has_is_ingress() false) or set
IsIngressValues == {<<>>, <<TRUE>>}

\* request header names a client may send
HeaderNames == {EnvoyOriginalDstHost, ":path"}

\* Cilium::SocketOption as seen through Cilium::GetSocketOption
NoOption == [found |-> FALSE]
SocketOptionSet ==
    {NoOption} \cup
    {[found |-> TRUE, ingress_ |-> i, identity_ |-> id, port_ |-> p, pod_ip_ |-> "10.0.0.5"] :
        i \in BOOLEAN, id \in {5}, p \in {80}}

\* stream_info.upstreamInfo()->upstreamHost()->address()
NullAddress == [kind |-> "null"]
PipeAddress == [kind |-> "pipe"]
IpAddresses == {[kind |-> "ip", ip |-> "10.1.1.1", port |-> 8080],
                [kind |-> "ip", ip |-> "192.0.2.7", port |-> 443]}
UpstreamAddresses == {NullAddress, PipeAddress} \cup IpAddresses

\* option->getPolicy(): no policy object, or one whose Allowed() answers
NoPolicy == "NoPolicy"
Policies == {NoPolicy, "PolicyAllows", "PolicyDenies"}

VARIABLES
    config,              \* the ::cilium::L7Policy configuration given to Config
    access_log_,         \* Config::access_log_ is non-null
    denied_403_body_,    \* Config::denied_403_body_
    constructed,         \* the Config constructor returned without throwing
    access_denied_,      \* Config::stats_.access_denied_
    requests,            \* AccessFilter instances created so far
    phase,               \* position of the current stream in the host pipeline
    conn,                \* callbacks_->connection() is non-null
    socketOptions,       \* conn->socketOptions() captured by the lambda
    request_headers,     \* request header names as the client sent them
    headers,             \* request header map after decodeHeaders
    decode_status,       \* value returned by decodeHeaders
    encode_status,       \* value returned by encodeHeaders
    local_reply,         \* arguments of callbacks_->sendLocalReply, or <<>>
    callback_registered, \* addUpstreamCallback was called
    allowed_,            \* AccessFilter::allowed_
    log_entry_,          \* AccessFilter::log_entry_
    attempts,            \* host selections made for the current request
    upstream_host,       \* address of the selected upstream host
    cbs,                 \* the runs of the upstream callback, one record each
    forwarded,           \* attempts whose host received request bytes
    log_calls,           \* entry types passed to Config::Log, in order
    emitted,             \* entry types written to the access log, in order
    lookups,             \* option->getPolicy() calls for the current request
    evals,               \* policy->Allowed() calls for the current request
    denied_at_start,     \* access_denied_ when the current filter was created
    twin                 \* the same events with the access log in the other state

vars == <<config, access_log_, denied_403_body_, constructed, access_denied_, requests, phase,
          conn, socketOptions, headers, decode_status, encode_status, local_reply,
          callback_registered, allowed_, log_entry_, attempts, upstream_host, cbs, forwarded,
          emitted, lookups, evals, denied_at_start, request_headers, log_calls, twin>>

configVars == <<config, access_log_, denied_403_body_, constructed>>

(* ----------------------------- Config ---------------------------------- *)
\* a normalisation that appends CRLF without looking at the end of the body
NormalizeBodyAlwaysAppends(body) ==
    (IF Len(body) = 0 THEN DefaultBody ELSE body) \o <<CR, LF>>

\* Config::Config, the denied_403_body_ normalisation
NormalizeBody(body) ==
    LET b == IF Len(body) = 0 THEN DefaultBody ELSE body
        len == Len(b)
    IN  IF len < 2 \/ b[len - 1] # CR \/ b[len] # LF
        THEN b \o <<CR, LF>>
        ELSE b

\* a constructor that accepts the legacy policy_name
ConfigNeverThrows(cfg) == FALSE

\* Config::Config(const ::cilium::L7Policy&, ...): throws EnvoyException
ConfigThrows(cfg) == cfg.policy_name # ""

\* the Config object the two constructors leave behind; opened is the outcome
\* of AccessLog::Open. A throwing constructor leaves no Config (the access log
\* opened by the delegated constructor is closed again by ~Config).
NewConfig(cfg, opened) ==
    [constructed |-> ~ConfigThrows(cfg),
     access_log_ |-> cfg.access_log_path # "" /\ opened /\ ~ConfigThrows(cfg),
     denied_403_body_ |-> NormalizeBody(cfg.denied_403_body)]

\* a Log that writes whether or not the access log was opened
LogOnAlways(open, log, type) == Append(log, type)

\* Config::Log for a Config whose access_log_ is non-null exactly if open
LogOn(open, log, type) == IF open THEN Append(log, type) ELSE log

\* Config::Log: the record reaches the access log only if it was opened
Log(log, type) == LogOn(access_log_, log, type)

(* ------------------------- AccessLog::Entry ---------------------------- *)
EmptyEntry ==
    [init_calls |-> 0, update_calls |-> 0, policy_name |-> "", ingress |-> FALSE,
     source_identity |-> 0, destination_identity |-> 0, destination_address |-> NullAddress]

\* AccessLog::Entry::InitFromRequest, by the arguments of its call
InitFromRequest(entry, policy_name, ingress, source_identity, destination_identity, dst_address) ==
    [entry EXCEPT !.init_calls = @ + 1,
                  !.policy_name = policy_name,
                  !.ingress = ingress,
                  !.source_identity = source_identity,
                  !.destination_identity = destination_identity,
                  !.destination_address = dst_address]

\* AccessLog::Entry::UpdateFromResponse
UpdateFromResponse(entry) == [entry EXCEPT !.update_calls = @ + 1]

(* ------------------------ external collaborators ----------------------- *)
\* option->resolvePolicyId(dip): the identity of a destination IP, 0 if unknown
resolvePolicyId(dip) == IF dip.ip = "10.1.1.1" THEN 9 ELSE 0

\* policy->Allowed(ingress, port, remote_id, headers, log_entry_)
Allowed(policy, ingress, port, remote_id) == policy = "PolicyAllows"


(* ----------------- the upstream callback (the lambda) ------------------ *)
\* which return statement of the lambda is reached before the log entry is filled
CallbackPath(option, dst_address) ==
    IF ~option.found THEN "no_option"
    ELSE IF dst_address = NullAddress THEN "no_address"
    ELSE IF ~option.ingress_ /\ dst_address.kind # "ip" THEN "non_ip"
    ELSE "decide"

MetadataMissing == {"no_option", "no_address", "non_ip"}

\* a destination_port that is always the declared port of the connection
DestinationPortDeclared(option, dst_address) == option.port_

\* a destination_identity that takes the connection's identity on ingress
DestinationIdentityLocal(option, dst_address) ==
    IF ~option.ingress_ THEN resolvePolicyId(dst_address) ELSE option.identity_

\* destination_identity: 0 unless egress, then the identity resolved for the IP
DestinationIdentity(option, dst_address) ==
    IF ~option.ingress_ THEN resolvePolicyId(dst_address) ELSE 0

\* destination_port: option->port_ unless egress, then the port of the IP
DestinationPort(option, dst_address) ==
    IF ~option.ingress_ THEN dst_address.port ELSE option.port_

\* the identity argument of policy->Allowed
RemoteIdentity(option, destination_identity) ==
    IF option.ingress_ THEN option.identity_ ELSE destination_identity

\* the Request record logged after the if/else, on the stored verdict alone
LogsRequestAfterBranch(policy, allowed) == allowed

\* config_->Log(log_entry_, Request) is reached: inside if (policy), if (allowed_)
LogsRequest(policy, allowed) == policy # NoPolicy /\ allowed

\* One run of the lambda: its return value, the members it leaves behind and
\* the calls it made.
UpstreamCallbackOn(open, option, dst_address, policy, allowed, entry, log) ==
    LET path == CallbackPath(option, dst_address) IN
    IF path # "decide"
    THEN [ret |-> FALSE, allowed_ |-> allowed, log_entry_ |-> entry, emitted |-> log,
          path |-> path, lookup |-> FALSE, call |-> <<>>, result |-> <<>>,
          logged |-> FALSE]
    ELSE
      LET destination_identity == DestinationIdentity(option, dst_address)
          destination_port == DestinationPort(option, dst_address)
          remote_id == RemoteIdentity(option, destination_identity)
          filled == InitFromRequest(entry, option.pod_ip_, option.ingress_,
                                    option.identity_, destination_identity, dst_address)
          result == IF policy # NoPolicy
                    THEN <<Allowed(policy, option.ingress_, destination_port, remote_id)>>
                    ELSE <<>>
          newAllowed == IF policy # NoPolicy THEN result[1] ELSE allowed
          logs == LogsRequest(policy, newAllowed)
      IN  [ret |-> newAllowed, allowed_ |-> newAllowed, log_entry_ |-> filled,
           emitted |-> IF logs THEN LogOn(open, log, Request) ELSE log,
           path |-> IF policy # NoPolicy THEN "evaluated" ELSE "no_policy",
           lookup |-> TRUE,
           call |-> IF policy # NoPolicy
                    THEN <<[ingress |-> option.ingress_, port |-> destination_port,
                            remote_id |-> remote_id]>>
                    ELSE <<>>,
           result |-> result,
           logged |-> logs]

\* the lambda as run by the filter, on its own Config
UpstreamCallback(option, dst_address, policy, allowed, entry, log) ==
    UpstreamCallbackOn(access_log_, option, dst_address, policy, allowed, entry, log)

\* the test on allowed_ inverted
TerminalTypeInverted(allowed) == IF allowed THEN Denied ELSE Response

\* the entry type encodeHeaders logs
TerminalType(allowed) == IF ~allowed THEN Denied ELSE Response

\* an encodeHeaders that counts a denial only when the access log is open
EncodeHeadersCountsLogged(open, allowed, entry, log, denied) ==
    [log_entry_ |-> UpdateFromResponse(entry),
     access_denied_ |-> IF ~allowed /\ open THEN denied + 1 ELSE denied,
     type |-> TerminalType(allowed),
     emitted |-> LogOn(open, log, TerminalType(allowed)),
     status |-> Continue]

\* AccessFilter::encodeHeaders: the members and the counter it leaves behind,
\* the entry type it logs and its return value
EncodeHeaders(open, allowed, entry, log, denied) ==
    [log_entry_ |-> UpdateFromResponse(entry),
     access_denied_ |-> IF ~allowed THEN denied + 1 ELSE denied,
     type |-> TerminalType(allowed),
     emitted |-> LogOn(open, log, TerminalType(allowed)),
     status |-> Continue]

\* the per-request part of the twin run when a filter is created
NewTwin(denied) ==
    [allowed_ |-> FALSE, log_entry_ |-> EmptyEntry, emitted |-> <<>>,
     decode_status |-> NoStatus, encode_status |-> NoStatus, rets |-> <<>>,
     access_denied_ |-> denied]

(* ------------------------------ Init ----------------------------------- *)
Init ==
    /\ \E path \in AccessLogPaths, body \in ConfiguredBodies, opened \in BOOLEAN,
          name \in PolicyNames, flag \in IsIngressValues :
          /\ config = [access_log_path |-> path, denied_403_body |-> body,
                       policy_name |-> name, is_ingress |-> flag]
          /\ access_log_ = NewConfig(config, opened).access_log_
          /\ denied_403_body_ = NewConfig(config, opened).denied_403_body_
          /\ constructed = NewConfig(config, opened).constructed
    /\ access_denied_ = 0
    /\ requests = 0
    /\ phase = "none"
    /\ conn = FALSE
    /\ socketOptions = NoOption
    /\ headers = {}
    /\ decode_status = NoStatus
    /\ encode_status = NoStatus
    /\ local_reply = <<>>
    /\ callback_registered = FALSE
    /\ allowed_ = FALSE
    /\ log_entry_ = EmptyEntry
    /\ attempts = 0
    /\ upstream_host = NullAddress
    /\ cbs = <<>>
    /\ forwarded = {}
    /\ emitted = <<>>
    /\ lookups = 0
    /\ evals = 0
    /\ denied_at_start = 0
    /\ request_headers = {}
    /\ log_calls = <<>>
    /\ twin = NewTwin(0)

(* ----------------------------- actions --------------------------------- *)
\* the filter factory callback: a new AccessFilter for a new stream
createFilter ==
    /\ constructed
    /\ phase \in {"none", "destroyed"}
    /\ requests < MaxRequests
    /\ requests' = requests + 1
    /\ phase' = "created"
    /\ conn' = FALSE
    /\ socketOptions' = NoOption
    /\ headers' = {}
    /\ decode_status' = NoStatus
    /\ encode_status' = NoStatus
    /\ local_reply' = <<>>
    /\ callback_registered' = FALSE
    /\ allowed_' = FALSE
    /\ log_entry_' = EmptyEntry
    /\ attempts' = 0
    /\ upstream_host' = NullAddress
    /\ cbs' = <<>>
    /\ forwarded' = {}
    /\ emitted' = <<>>
    /\ lookups' = 0
    /\ evals' = 0
    /\ denied_at_start' = access_denied_
    /\ request_headers' = {}
    /\ log_calls' = <<>>
    /\ twin' = NewTwin(twin.access_denied_)
    /\ UNCHANGED <<configVars, access_denied_>>

\* decodeHeaders that returns Continue without registering the upstream callback
decodeHeadersNoCallback ==
    /\ phase = "created"
    /\ \E hdrs \in SUBSET HeaderNames, connection \in BOOLEAN, opts \in SocketOptionSet :
          /\ request_headers' = hdrs
          /\ headers' = hdrs \ {EnvoyOriginalDstHost}
          /\ conn' = connection
          /\ twin' = [twin EXCEPT !.decode_status =
                                    IF ~connection THEN StopIteration ELSE Continue]
          /\ IF ~connection
             THEN /\ local_reply' = <<[code |-> Forbidden, body |-> denied_403_body_]>>
                  /\ decode_status' = StopIteration
                  /\ phase' = "local_reply"
                  /\ UNCHANGED <<socketOptions, callback_registered>>
             ELSE /\ socketOptions' = opts
                  /\ callback_registered' = FALSE
                  /\ decode_status' = Continue
                  /\ phase' = "routing"
                  /\ UNCHANGED local_reply
    /\ UNCHANGED <<configVars, access_denied_, requests, encode_status, allowed_,
                   log_entry_, attempts, upstream_host, cbs, forwarded, emitted, lookups, evals,
                   denied_at_start, log_calls>>

\* decodeHeaders that removes the header only after the connection check
decodeHeadersRemovesLate ==
    /\ phase = "created"
    /\ \E hdrs \in SUBSET HeaderNames, connection \in BOOLEAN, opts \in SocketOptionSet :
          /\ request_headers' = hdrs
          /\ headers' = IF ~connection THEN hdrs ELSE hdrs \ {EnvoyOriginalDstHost}
          /\ conn' = connection
          /\ twin' = [twin EXCEPT !.decode_status =
                                    IF ~connection THEN StopIteration ELSE Continue]
          /\ IF ~connection
             THEN /\ local_reply' = <<[code |-> Forbidden, body |-> denied_403_body_]>>
                  /\ decode_status' = StopIteration
                  /\ phase' = "local_reply"
                  /\ UNCHANGED <<socketOptions, callback_registered>>
             ELSE /\ socketOptions' = opts
                  /\ callback_registered' = TRUE
                  /\ decode_status' = Continue
                  /\ phase' = "routing"
                  /\ UNCHANGED local_reply
    /\ UNCHANGED <<configVars, access_denied_, requests, encode_status, allowed_,
                   log_entry_, attempts, upstream_host, cbs, forwarded, emitted, lookups, evals,
                   denied_at_start, log_calls>>

\* AccessFilter::decodeHeaders
decodeHeaders ==
    /\ phase = "created"
    /\ \E hdrs \in SUBSET HeaderNames, connection \in BOOLEAN, opts \in SocketOptionSet :
          /\ request_headers' = hdrs
          /\ headers' = hdrs \ {EnvoyOriginalDstHost}
          /\ conn' = connection
          /\ twin' = [twin EXCEPT !.decode_status =
                                    IF ~connection THEN StopIteration ELSE Continue]
          /\ IF ~connection
             THEN /\ local_reply' = <<[code |-> Forbidden, body |-> denied_403_body_]>>
                  /\ decode_status' = StopIteration
                  /\ phase' = "local_reply"
                  /\ UNCHANGED <<socketOptions, callback_registered>>
             ELSE /\ socketOptions' = opts
                  /\ callback_registered' = TRUE
                  /\ decode_status' = Continue
                  /\ phase' = "routing"
                  /\ UNCHANGED local_reply
    /\ UNCHANGED <<configVars, access_denied_, requests, encode_status, allowed_,
                   log_entry_, attempts, upstream_host, cbs, forwarded, emitted, lookups, evals,
                   denied_at_start, log_calls>>

\* the router selects an upstream host for the request
selectHost ==
    /\ phase = "routing"
    /\ attempts < MaxAttempts
    /\ \E h \in UpstreamAddresses : upstream_host' = h
    /\ attempts' = attempts + 1
    /\ phase' = "host_selected"
    /\ UNCHANGED <<configVars, access_denied_, requests, conn, socketOptions, headers,
                   decode_status, encode_status, local_reply, callback_registered, allowed_,
                   log_entry_, cbs, forwarded, emitted, lookups, evals,
                   denied_at_start,
                   request_headers, log_calls, twin>>

\* the host runs the registered upstream callback for the selected host;
\* a false verdict aborts the attempt and the request is rejected
upstreamCallback ==
    /\ phase = "host_selected"
    /\ callback_registered
    /\ \E policy \in Policies :
          LET r == UpstreamCallback(socketOptions, upstream_host, policy,
                                    allowed_, log_entry_, emitted)
              t == UpstreamCallbackOn(~access_log_, socketOptions, upstream_host, policy,
                                      twin.allowed_, twin.log_entry_, twin.emitted)
          IN  /\ twin' = [twin EXCEPT !.allowed_ = t.allowed_,
                                      !.log_entry_ = t.log_entry_,
                                      !.emitted = t.emitted,
                                      !.rets = Append(@, t.ret)]
              /\ log_calls' = IF r.logged THEN Append(log_calls, Request) ELSE log_calls
              /\ allowed_' = r.allowed_
              /\ log_entry_' = r.log_entry_
              /\ emitted' = r.emitted
              /\ lookups' = lookups + (IF r.lookup THEN 1 ELSE 0)
              /\ evals' = evals + Len(r.call)
              /\ cbs' = Append(cbs, [attempt |-> attempts, host |-> upstream_host,
                                     headers |-> headers,
                                     path |-> r.path, ret |-> r.ret,
                                     lookup |-> r.lookup, call |-> r.call,
                                     result |-> r.result, logged |-> r.logged])
              /\ phase' = IF r.ret THEN "authorized" ELSE "rejected"
    /\ UNCHANGED <<configVars, access_denied_, requests, conn, socketOptions, headers,
                   decode_status, encode_status, local_reply, callback_registered, attempts,
                   upstream_host, forwarded, denied_at_start, request_headers>>

\* the host forwards the request bytes to the selected upstream host
forwardRequest ==
    /\ \/ phase = "authorized"
       \/ phase = "host_selected" /\ ~callback_registered
    /\ forwarded' = forwarded \cup {[attempt |-> attempts, host |-> upstream_host]}
    /\ phase' = "forwarding"
    /\ UNCHANGED <<configVars, access_denied_, requests, conn, socketOptions, headers,
                   decode_status, encode_status, local_reply, callback_registered, allowed_,
                   log_entry_, attempts, upstream_host, cbs, emitted, lookups, evals,
                   denied_at_start,
                   request_headers, log_calls, twin>>

\* the upstream attempt fails before response headers and the router retries
retryUpstream ==
    /\ phase = "forwarding"
    /\ attempts < MaxAttempts
    /\ phase' = "routing"
    /\ UNCHANGED <<configVars, access_denied_, requests, conn, socketOptions, headers,
                   decode_status, encode_status, local_reply, callback_registered, allowed_,
                   log_entry_, attempts, upstream_host, cbs, forwarded, emitted,
                   lookups, evals, denied_at_start,
                   request_headers, log_calls, twin>>

\* encodeHeaders that clears the verdict once it has logged
encodeHeadersClearsVerdict ==
    /\ phase \in {"local_reply", "rejected", "forwarding"}
    /\ LET r == EncodeHeaders(access_log_, allowed_, log_entry_, emitted, access_denied_)
           t == EncodeHeaders(~access_log_, twin.allowed_, twin.log_entry_, twin.emitted,
                              twin.access_denied_)
       IN  /\ log_entry_' = r.log_entry_
           /\ access_denied_' = r.access_denied_
           /\ emitted' = r.emitted
           /\ log_calls' = Append(log_calls, r.type)
           /\ encode_status' = r.status
           /\ twin' = [twin EXCEPT !.log_entry_ = t.log_entry_,
                                   !.access_denied_ = t.access_denied_,
                                   !.emitted = t.emitted,
                                   !.encode_status = t.status,
                                   !.allowed_ = FALSE]
    /\ allowed_' = FALSE
    /\ phase' = "responded"
    /\ UNCHANGED <<configVars, requests, conn, socketOptions, headers, decode_status,
                   local_reply, callback_registered, attempts, upstream_host,
                   cbs, forwarded, lookups, evals, denied_at_start, request_headers>>

\* AccessFilter::encodeHeaders: response headers of the upstream or of a local reply
encodeHeaders ==
    /\ phase \in {"local_reply", "rejected", "forwarding"}
    /\ LET r == EncodeHeaders(access_log_, allowed_, log_entry_, emitted, access_denied_)
           t == EncodeHeaders(~access_log_, twin.allowed_, twin.log_entry_, twin.emitted,
                              twin.access_denied_)
       IN  /\ log_entry_' = r.log_entry_
           /\ access_denied_' = r.access_denied_
           /\ emitted' = r.emitted
           /\ log_calls' = Append(log_calls, r.type)
           /\ encode_status' = r.status
           /\ twin' = [twin EXCEPT !.log_entry_ = t.log_entry_,
                                   !.access_denied_ = t.access_denied_,
                                   !.emitted = t.emitted,
                                   !.encode_status = t.status]
    /\ phase' = "responded"
    /\ UNCHANGED <<configVars, requests, conn, socketOptions, headers, decode_status,
                   local_reply, callback_registered, allowed_, attempts, upstream_host,
                   cbs, forwarded, lookups, evals, denied_at_start, request_headers>>

\* an onDestroy that accounts a request without response as denied
onDestroyLogsDenied ==
    /\ phase \notin {"none", "destroyed"}
    /\ phase' = "destroyed"
    /\ emitted' = IF Len(log_calls) = 0 THEN Log(emitted, Denied) ELSE emitted
    /\ log_calls' = IF Len(log_calls) = 0 THEN Append(log_calls, Denied) ELSE log_calls
    /\ access_denied_' = IF Len(log_calls) = 0 THEN access_denied_ + 1 ELSE access_denied_
    /\ UNCHANGED <<configVars, requests, conn, socketOptions, headers,
                   decode_status, encode_status, local_reply, callback_registered, allowed_,
                   log_entry_, attempts, upstream_host, cbs, forwarded,
                   lookups, evals, denied_at_start, request_headers, twin>>

\* AccessFilter::onDestroy: the stream is destroyed, the filter does nothing
onDestroy ==
    /\ phase \notin {"none", "destroyed"}
    /\ phase' = "destroyed"
    /\ UNCHANGED <<configVars, access_denied_, requests, conn, socketOptions, headers,
                   decode_status, encode_status, local_reply, callback_registered, allowed_,
                   log_entry_, attempts, upstream_host, cbs, forwarded, emitted,
                   lookups, evals, denied_at_start,
                   request_headers, log_calls, twin>>

Next ==
    \/ createFilter
    \/ decodeHeaders
    \/ selectHost
    \/ upstreamCallback
    \/ forwardRequest
    \/ retryUpstream
    \/ encodeHeaders
    \/ onDestroy

Spec == Init /\ [][Next]_vars

\* a configuration handed to ConfigFactory::createFilterFactoryFromProto, before
\* the Config is constructed from it
InitConfig ==
    /\ \E path \in AccessLogPaths, body \in BodiesUpTo(MaxBodyLen),
          name \in PolicyNames, flag \in IsIngressValues :
          config = [access_log_path |-> path, denied_403_body |-> body,
                    policy_name |-> name, is_ingress |-> flag]
    /\ access_log_ = FALSE
    /\ denied_403_body_ = <<>>
    /\ constructed = FALSE
    /\ access_denied_ = 0
    /\ requests = 0
    /\ phase = "configuring"
    /\ conn = FALSE
    /\ socketOptions = NoOption
    /\ headers = {}
    /\ decode_status = NoStatus
    /\ encode_status = NoStatus
    /\ local_reply = <<>>
    /\ callback_registered = FALSE
    /\ allowed_ = FALSE
    /\ log_entry_ = EmptyEntry
    /\ attempts = 0
    /\ upstream_host = NullAddress
    /\ cbs = <<>>
    /\ forwarded = {}
    /\ emitted = <<>>
    /\ lookups = 0
    /\ evals = 0
    /\ denied_at_start = 0
    /\ request_headers = {}
    /\ log_calls = <<>>
    /\ twin = NewTwin(0)

\* ConfigFactory::createFilterFactoryFromProto: the Config is constructed from
\* the configuration, before any stream exists
constructConfig ==
    /\ phase = "configuring"
    /\ \E opened \in BOOLEAN :
          /\ access_log_' = NewConfig(config, opened).access_log_
          /\ denied_403_body_' = NewConfig(config, opened).denied_403_body_
          /\ constructed' = NewConfig(config, opened).constructed
    /\ phase' = "none"
    /\ UNCHANGED <<config, access_denied_, requests, conn, socketOptions, headers,
                   decode_status, encode_status, local_reply, callback_registered,
                   allowed_, log_entry_, attempts, upstream_host, cbs, forwarded,
                   emitted, lookups, evals, denied_at_start, request_headers,
                   log_calls, twin>>

NextConfig == constructConfig

\* Config construction alone, over all bodies of at most MaxBodyLen characters
SpecConfig == InitConfig /\ [][NextConfig]_vars

(* ------------------------- derived notions ----------------------------- *)
CountOf(log, type) == Cardinality({i \in 1..Len(log) : log[i] = type})

Repeat(type, n) == [i \in 1..n |-> type]

HasRun == Len(cbs) > 0
LastRun == cbs[Len(cbs)]

\* runs of the callback in which policy->Allowed returned true
AllowedRuns == {i \in 1..Len(cbs) : cbs[i].result = <<TRUE>>}

\* the response headers of the current request have passed encodeHeaders
Responded == encode_status # NoStatus

(* ------------------------------ claims --------------------------------- *)

\* C1: request bytes have been forwarded to an upstream host only if
\* decodeHeaders returned Continue and the upstream callback ran for that
\* host (after its selection) and returned true; no attempt for which the
\* callback returned false has been forwarded.
C1_ForwardOnlyAfterTrueVerdict ==
    /\ \A f \in forwarded :
          /\ decode_status = Continue
          /\ \E i \in 1..Len(cbs) :
                cbs[i].attempt = f.attempt /\ cbs[i].host = f.host /\ cbs[i].ret
    /\ \A i \in 1..Len(cbs) :
          ~cbs[i].ret => \A f \in forwarded : f.attempt # cbs[i].attempt

C1_Witness ==
    /\ phase = "forwarding"
    /\ Cardinality(forwarded) = 2
    /\ \A i \in 1..Len(cbs) : cbs[i].ret

\* C2 (as stated): every run of the upstream callback that returns true found
\* the socket option, an upstream address (an IP one for egress) and a policy
\* object whose Allowed call returned true in that same run; a run that finds
\* no policy object returns false.
C2_FailClosedEveryRun ==
    \A i \in 1..Len(cbs) :
        /\ cbs[i].ret => (cbs[i].path = "evaluated" /\ cbs[i].result = <<TRUE>>)
        /\ cbs[i].path = "no_policy" => ~cbs[i].ret

\* C3 (as stated): a request without a connection gets the local 403 reply
\* with the normalized denial body and StopIteration, registers no callback,
\* looks up no policy and never has an access log record of any type.
C3_NoConnectionNothingLogged ==
    (phase \in {"local_reply", "responded", "destroyed"} /\ requests > 0 /\ ~conn
        /\ decode_status # NoStatus) =>
        /\ local_reply = <<[code |-> Forbidden, body |-> NormalizeBody(config.denied_403_body)]>>
        /\ decode_status = StopIteration
        /\ ~callback_registered
        /\ lookups = 0
        /\ emitted = <<>>

C5_DeniedVerdictOneDeniedRecord ==
    (HasRun /\ (LastRun.path = "no_policy" \/ LastRun.result = <<FALSE>>)) =>
        /\ CountOf(emitted, Request) = 0
        /\ Responded =>
              /\ access_log_ => emitted = <<Denied>>
              /\ access_denied_ = denied_at_start + 1

\* C6 (as stated): a run of the callback that ends on a metadata-missing
\* condition (no socket option, no upstream address, non-IP egress
\* destination) returns false without a policy lookup and without a Request
\* record; the response phase then emits one Denied record and increments
\* access_denied_ by 1.
C6_MetadataMissingIsDenied ==
    (HasRun /\ LastRun.path \in MetadataMissing) =>
        /\ ~LastRun.ret
        /\ ~LastRun.lookup
        /\ ~LastRun.logged
        /\ Responded =>
              /\ access_log_ => CountOf(emitted, Denied) = 1
              /\ access_denied_ = denied_at_start + 1

\* an ingress request whose log entry has been filled at decision time
IngressEntryFilled ==
    /\ socketOptions.found
    /\ socketOptions.ingress_
    /\ HasRun
    /\ LastRun.path \in {"evaluated", "no_policy"}
    /\ log_entry_.init_calls > 0

\* C7 (as stated): for an ingress request the filled log entry carries a
\* destination identity equal to the connection's identity, and the
\* destination port used is the connection's declared port.
C7_IngressDestinationIsLocalIdentity ==
    IngressEntryFilled =>
        /\ log_entry_.destination_identity = socketOptions.identity_
        /\ \A i \in 1..Len(LastRun.call) : LastRun.call[i].port = socketOptions.port_

\* C7 (amended): for an ingress request the filled log entry carries
\* destination identity 0 and the connection's identity as its source
\* identity; the connection's identity is the identity given to Allowed, and
\* the destination port used is the connection's declared port.
C7_IngressDestinationIdentityZero ==
    IngressEntryFilled =>
        /\ log_entry_.destination_identity = 0
        /\ log_entry_.source_identity = socketOptions.identity_
        /\ log_entry_.ingress
        /\ \A i \in 1..Len(LastRun.call) :
              /\ LastRun.call[i].port = socketOptions.port_
              /\ LastRun.call[i].remote_id = socketOptions.identity_
              /\ LastRun.call[i].ingress

C7_Witness ==
    /\ IngressEntryFilled
    /\ socketOptions.identity_ = 5
    /\ socketOptions.port_ = 80
    /\ LastRun.result = <<TRUE>>
    /\ Responded
    /\ emitted = <<Request, Response>>

\* C8 (as stated): InitFromRequest is called at most once on the log entry,
\* and UpdateFromResponse runs only on an entry on which InitFromRequest was
\* called exactly once.
C8_InitOnceBeforeUpdate ==
    /\ log_entry_.init_calls <= 1
    /\ log_entry_.update_calls > 0 => log_entry_.init_calls = 1

\* a Denied record comes after a Request record of the same request
DeniedAfterRequest ==
    \E i, j \in 1..Len(emitted) :
        i < j /\ emitted[i] = Request /\ emitted[j] = Denied

TerminalCount(log) == CountOf(log, Response) + CountOf(log, Denied)

C11_OneTerminalRecordPerDecodedRequest ==
    /\ encode_status \in {NoStatus, Continue}
    /\ (decode_status # NoStatus /\ phase = "destroyed") => TerminalCount(emitted) = 1

\* C11 (amended): a request whose response headers passed encodeHeaders has
\* exactly one response-phase Log call, which is emitted exactly once if the
\* access log is open and not at all otherwise; a request whose response
\* headers have not passed encodeHeaders has no response-phase Log call;
\* encodeHeaders returns Continue.
C11_OneTerminalLogCallPerResponse ==
    /\ encode_status \in {NoStatus, Continue}
    /\ TerminalCount(log_calls) = IF Responded THEN 1 ELSE 0
    /\ TerminalCount(emitted) = IF Responded /\ access_log_ THEN 1 ELSE 0
    /\ Responded => log_calls[Len(log_calls)] \in {Response, Denied}

C11_Witness ==
    /\ Responded
    /\ ~access_log_
    /\ decode_status = Continue
    /\ log_calls = <<Denied>>
    /\ emitted = <<>>

\* the return values of the runs of the callback
CallbackReturns == [i \in 1..Len(cbs) |-> cbs[i].ret]

\* C12: when the access log could not be opened, or no path is configured,
\* the Config is still constructed and no Log call writes a record; and the
\* same events with the access log in the other state give the same
\* decodeHeaders result, the same callback return values, the same
\* encodeHeaders result and the same access_denied_ value.
C12_AuditSinkIndependence ==
    /\ config.policy_name = "" => constructed
    /\ ~access_log_ => emitted = <<>>
    /\ access_log_ => emitted = log_calls
    /\ twin.emitted = IF access_log_ THEN <<>> ELSE log_calls
    /\ twin.decode_status = decode_status
    /\ twin.rets = CallbackReturns
    /\ twin.encode_status = encode_status
    /\ twin.access_denied_ = access_denied_
    /\ twin.allowed_ = allowed_

C12_Witness ==
    /\ config.access_log_path # ""
    /\ ~access_log_
    /\ constructed
    /\ Responded
    /\ log_calls = <<Request, Denied>>
    /\ emitted = <<>>
    /\ twin.emitted = <<Request, Denied>>
    /\ access_denied_ = denied_at_start + 1

EndsWithCRLF(b) == Len(b) >= 2 /\ b[Len(b) - 1] = CR /\ b[Len(b)] = LF

\* C13: an empty configured body becomes "Access denied\r\n"; a body that
\* does not end with CRLF gets exactly one CRLF appended; a body that ends
\* with CRLF is stored unchanged; the stored body is non-empty, ends with
\* CRLF, and normalising it again changes nothing.
C13_BodyNormalized ==
    LET b == config.denied_403_body
        n == denied_403_body_
    IN  phase # "configuring" =>
        /\ b = <<>> =>
              n = <<"A", "c", "c", "e", "s", "s", " ", "d", "e", "n", "i", "e", "d", CR, LF>>
        /\ (b # <<>> /\ ~EndsWithCRLF(b)) => n = b \o <<CR, LF>>
        /\ EndsWithCRLF(b) => n = b
        /\ n # <<>>
        /\ EndsWithCRLF(n)
        /\ NormalizeBody(n) = n

C13_Witness ==
    /\ config.denied_403_body = <<CR, LF, "x", CR>>
    /\ denied_403_body_ = <<CR, LF, "x", CR, CR, LF>>
    /\ constructed

\* C14: a configuration with a non-empty policy_name is never constructed and
\* no filter is ever created from it; a configuration with an empty
\* policy_name is constructed whether or not is_ingress is set, and the
\* direction given to Allowed and to the log entry is the socket option's,
\* whatever is_ingress says.
C14_LegacyFields ==
    /\ config.policy_name # "" => (~constructed /\ requests = 0 /\ phase = "none")
    /\ config.policy_name = "" => constructed
    /\ \A i \in 1..Len(cbs) : \A k \in 1..Len(cbs[i].call) :
          cbs[i].call[k].ingress = socketOptions.ingress_
    /\ log_entry_.init_calls > 0 => log_entry_.ingress = socketOptions.ingress_

C14_Witness ==
    /\ config.is_ingress = <<TRUE>>
    /\ constructed
    /\ socketOptions.found
    /\ ~socketOptions.ingress_
    /\ HasRun
    /\ LastRun.result = <<TRUE>>
    /\ ~LastRun.call[1].ingress

RequestDenied ==
    \/ decode_status = StopIteration
    \/ HasRun /\ (~LastRun.ret \/ LastRun.path = "no_policy")

\* C16 (as stated): access_denied_ never goes below its value at the start
\* of the request, is incremented once for every denied request that is
\* responded to, whatever the denial path, and is incremented only when the
\* terminal entry type is Denied.
C16_CounterCountsEveryDenial ==
    /\ access_denied_ >= denied_at_start
    /\ (Responded /\ RequestDenied) => access_denied_ = denied_at_start + 1
    /\ access_denied_ > denied_at_start =>
          /\ access_denied_ = denied_at_start + 1
          /\ log_calls # <<>>
          /\ log_calls[Len(log_calls)] = Denied

\* C17: a run of the callback that finds a policy object calls Allowed once,
\* with the socket option's direction and, on ingress, the option's port and
\* identity, on egress, the port of the upstream IP address and the identity
\* resolved for it; the run returns Allowed's result, which is also the
\* stored verdict until the next run.
C17_AllowedArguments ==
    /\ \A i \in 1..Len(cbs) :
          cbs[i].path = "evaluated" =>
              /\ cbs[i].call =
                    <<[ingress |-> socketOptions.ingress_,
                       port |-> IF socketOptions.ingress_ THEN socketOptions.port_
                                ELSE cbs[i].host.port,
                       remote_id |-> IF socketOptions.ingress_ THEN socketOptions.identity_
                                     ELSE resolvePolicyId(cbs[i].host)]>>
              /\ cbs[i].result = <<cbs[i].ret>>
    /\ (HasRun /\ LastRun.path = "evaluated") => <<allowed_>> = LastRun.result

C17_Witness ==
    /\ HasRun
    /\ socketOptions.found
    /\ ~socketOptions.ingress_
    /\ LastRun.call = <<[ingress |-> FALSE, port |-> 8080, remote_id |-> 9]>>
    /\ LastRun.ret
    /\ allowed_

\* C18: once decodeHeaders has returned, on either path, the request headers
\* are the headers the client sent without the original-destination header,
\* and no run of the callback sees that header.
C18_OriginalDstHeaderRemoved ==
    /\ decode_status # NoStatus =>
          /\ EnvoyOriginalDstHost \notin headers
          /\ headers = request_headers \ {EnvoyOriginalDstHost}
    /\ \A i \in 1..Len(cbs) :
          /\ EnvoyOriginalDstHost \notin cbs[i].headers
          /\ cbs[i].headers = request_headers \ {EnvoyOriginalDstHost}

C18_Witness ==
    /\ decode_status = StopIteration
    /\ request_headers = {EnvoyOriginalDstHost, ":path"}
    /\ headers = {":path"}

\* C19: the step that destroys the stream, and every later step until a new
\* filter is created, runs no callback, emits no record, makes no Log call
\* and leaves the verdict and access_denied_ unchanged.
C19_NothingAfterDestroy ==
    [][((phase' = "destroyed" \/ phase = "destroyed") /\ requests' = requests) =>
          UNCHANGED <<cbs, emitted, log_calls, allowed_, access_denied_, log_entry_>>]_vars

C19_Witness ==
    /\ phase = "destroyed"
    /\ callback_registered
    /\ attempts = 1
    /\ cbs = <<>>
    /\ emitted = <<>>
    /\ access_denied_ = denied_at_start

====
